---- MODULE Spec2Model ----
(***************************************************************************)
(* A model of cnabRows.js: the CNAB reader that loads a fixed-width        *)
(* remittance file, partitions it in header / body / tail, runs the        *)
(* positional lookup, the segment listing and the company-name search      *)
(* over the body and exports the "Q" lines to a JSON file.                 *)
(*                                                                         *)
(* A string is a sequence of one-character strings, 0-based JavaScript     *)
(* index i being element i+1.  A file is its text, with "\n" between the   *)
(* lines.  An output (console.log / console.error / fs call) is an entry   *)
(* of the sequence events, in the order the program makes them.            *)
(***************************************************************************)
EXTENDS Integers, Sequences, FiniteSets, TLC

VARIABLES
  pc,        \* the position of main(): setup, read, positions, segment, name, export, end, done, exited
  options,   \* the parsed argv: from, to, segmento, buscar, nome, json, arquivo
  fsys,      \* the file system: path -> text of the file, or NoFile
  writable,  \* whether fs.writeFile of the output path succeeds
  cnabData,  \* the value readCnabFile returned: full, header, body, tail
  events,    \* what the run has done so far: reads, logs, writes
  outFile,   \* what was written to the output path (the array given to JSON.stringify)
  line,      \* the argument of a direct call of parseCnabQSegmentLine
  fields     \* the value that call returned

vars == <<pc, options, fsys, writable, cnabData, events, outFile, line, fields>>

---------------------------------------------------------------------------
(* The static offset table.                                                *)

CNAB_POSITIONS ==
  [ SEGMENT_INDEX |-> 13,
    COMPANY_NAME  |-> [START |-> 33,  END |-> 73],
    ADDRESS       |-> [START |-> 73,  END |-> 113],
    DISTRICT      |-> [START |-> 113, END |-> 128],
    ZIP           |-> [START |-> 128, END |-> 136],
    CITY          |-> [START |-> 136, END |-> 151],
    ESTADO        |-> [START |-> 151, END |-> 154] ]   \* STATE in the source, a reserved word here

---------------------------------------------------------------------------
(* JavaScript's string and array primitives, as the code uses them.        *)

Min2(a, b) == IF a <= b THEN a ELSE b
Max2(a, b) == IF a >= b THEN a ELSE b

\* The value of an absent property or of an index past the end.
Undefined == <<"undefined">>

\* The white space String.prototype.trim removes.
WhiteSpace == {" ", "\t", "\r", "\n"}

\* s[i] of a string: the one-character string at 0-based index i, or undefined.
CharAt(s, i) == IF 0 <= i /\ i < Len(s) THEN <<s[i + 1]>> ELSE Undefined

\* String.prototype.substring(start, end): both clamped to [0, length], and
\* swapped when start > end.
substring(s, start, end) ==
  LET a  == Max2(0, Min2(start, Len(s)))
      b  == Max2(0, Min2(end, Len(s)))
  IN  SubSeq(s, Min2(a, b) + 1, Max2(a, b))

\* String.prototype.substring(start): to the end of the string.
substringFrom(s, start) == substring(s, start, Len(s))

\* slice(start, end) of a string or an array: a negative index counts from
\* the end, both are clamped, and the result is empty when start >= end.
slice(s, start, end) ==
  LET n == Len(s)
      a == IF start < 0 THEN Max2(n + start, 0) ELSE Min2(start, n)
      b == IF end < 0 THEN Max2(n + end, 0) ELSE Min2(end, n)
  IN  IF a >= b THEN <<>> ELSE SubSeq(s, a + 1, b)

RECURSIVE trimStart(_)
trimStart(s) ==
  IF s = <<>> THEN s
  ELSE IF Head(s) \in WhiteSpace THEN trimStart(Tail(s)) ELSE s

RECURSIVE trimEnd(_)
trimEnd(s) ==
  IF s = <<>> THEN s
  ELSE IF s[Len(s)] \in WhiteSpace THEN trimEnd(SubSeq(s, 1, Len(s) - 1)) ELSE s

\* String.prototype.trim(): white space removed from both ends.
trim(s) == trimEnd(trimStart(s))

\* String.prototype.includes(p).
includes(s, p) ==
  \E i \in 0..(Len(s) - Len(p)) : SubSeq(s, i + 1, i + Len(p)) = p

UpperChar(c) ==
  CASE c = "a" -> "A"
    [] c = "b" -> "B"
    [] c = "p" -> "P"
    [] c = "q" -> "Q"
    [] c = "r" -> "R"
    [] OTHER   -> c

\* String.prototype.toUpperCase().
toUpperCase(s) == [i \in 1..Len(s) |-> UpperChar(s[i])]

\* String.prototype.split('\n'): the pieces between the line feeds, one more
\* piece than there are line feeds (the empty text is one empty line).
split(text) ==
  LET nl     == {i \in 1..Len(text) : text[i] = "\n"}
      cut(k) == IF k = 0 THEN 0
                ELSE IF k > Cardinality(nl) THEN Len(text) + 1
                ELSE CHOOSE p \in nl : Cardinality({q \in nl : q < p}) = k - 1
  IN  [k \in 1..(Cardinality(nl) + 1) |-> SubSeq(text, cut(k - 1) + 1, cut(k) - 1)]

\* if (x) of a number (0, NaN and undefined are 0 here) and of a string
\* (the empty string and undefined are <<>> here, a path "" ).
TruthyNum(x) == x # 0
TruthyStr(s) == s # <<>>
TruthyPath(p) == p # ""

---------------------------------------------------------------------------
(* The functions of cnabRows.js.                                           *)

\* [...arr].slice(...positions): positions holds one or two indices.
sliceArrayPosition(arr, positions) ==
  IF Len(positions) = 1 THEN slice(arr, positions[1], Len(arr))
  ELSE slice(arr, positions[1], positions[2])

\* The pieces as the first version of the program cut them: a prefix that
\* runs to from.
HighlightPrefixToFrom(segmento, from, to) ==
  [ prefix   |-> substring(segmento, 0, from),
    destaque |-> substring(segmento, from - 1, to),
    suffix   |-> substringFrom(segmento, to) ]

\* The three highlighted pieces of a line: before, inverse video, after.
Highlight(segmento, from, to) ==
  [ prefix   |-> substring(segmento, 0, from - 1),
    destaque |-> substring(segmento, from - 1, to),
    suffix   |-> substringFrom(segmento, to) ]

messageLog(segmento, segmentoType, from, to, caminho) ==
  [ kind         |-> "linha",
    segmentoType |-> segmentoType,
    from         |-> from,
    to           |-> to,
    isolado      |-> substring(segmento, from - 1, to),
    dentro       |-> Highlight(segmento, from, to) ]

segmentMessageLog(segmentos, segmentoType, from, to) ==
  [ kind         |-> "segmento",
    segmentoType |-> segmentoType,
    linhas       |-> [i \in 1..Len(segmentos) |-> Highlight(segmentos[i], from, to)] ]

\* A field that is trimmed whatever its kind.
FieldOfAlwaysTrimmed(name, l, range, trimmed) ==
  [ name  |-> name,
    value |-> trim(slice(l, range.START, range.END)),
    from  |-> range.START,
    to    |-> range.END ]

\* One field of the export: line.slice(START, END), trimmed or raw.
FieldOf(name, l, range, trimmed) ==
  LET raw == slice(l, range.START, range.END)
  IN  [ name  |-> name,
        value |-> IF trimmed THEN trim(raw) ELSE raw,
        from  |-> range.START,
        to    |-> range.END ]

\* The object's keys in insertion order, as JSON.stringify writes them.
parseCnabQSegmentLine(l) ==
  << FieldOf("nome",     l, CNAB_POSITIONS.COMPANY_NAME, TRUE),
     FieldOf("endereco", l, CNAB_POSITIONS.ADDRESS,      TRUE),
     FieldOf("bairro",   l, CNAB_POSITIONS.DISTRICT,     TRUE),
     FieldOf("cep",      l, CNAB_POSITIONS.ZIP,          FALSE),
     FieldOf("cidade",   l, CNAB_POSITIONS.CITY,         TRUE),
     FieldOf("estado",   l, CNAB_POSITIONS.ESTADO,        FALSE) >>

\* A filter that stops at the first element that passes.
RECURSIVE filterFirst(_, _)
filterFirst(arr, pass) ==
  IF arr = <<>> THEN <<>>
  ELSE IF Head(pass) THEN <<Head(arr)>> ELSE filterFirst(Tail(arr), Tail(pass))

\* Array.prototype.filter: the elements that pass, in the array's order;
\* pass[i] is the callback's result on element i.
RECURSIVE filter(_, _)
filter(arr, pass) ==
  IF arr = <<>> THEN <<>>
  ELSE (IF Head(pass) THEN <<Head(arr)>> ELSE <<>>) \o filter(Tail(arr), Tail(pass))

\* Array.prototype.findLast: the last element that passes, or undefined.
RECURSIVE findLast(_, _)
findLast(arr, pass) ==
  IF arr = <<>> THEN Undefined
  ELSE IF pass[Len(pass)] THEN arr[Len(arr)]
       ELSE findLast(SubSeq(arr, 1, Len(arr) - 1), SubSeq(pass, 1, Len(pass) - 1))

\* Array.prototype.find: the first element that passes, or undefined.
RECURSIVE find(_, _)
find(arr, pass) ==
  IF arr = <<>> THEN Undefined
  ELSE IF Head(pass) THEN Head(arr) ELSE find(Tail(arr), Tail(pass))

\* A body that leaves out one trailer line only.
readCnabFileBodyToLast(file) ==
  LET cnabArray == split(file)
  IN  [ full   |-> cnabArray,
        header |-> sliceArrayPosition(cnabArray, <<0, 2>>),
        body   |-> sliceArrayPosition(cnabArray, <<2, -1>>),
        tail   |-> sliceArrayPosition(cnabArray, <<-2>>) ]

\* The value readCnabFile resolves to, for the text of the file.
readCnabFile(file) ==
  LET cnabArray == split(file)
  IN  [ full   |-> cnabArray,
        header |-> sliceArrayPosition(cnabArray, <<0, 2>>),
        body   |-> sliceArrayPosition(cnabArray, <<2, -2>>),
        tail   |-> sliceArrayPosition(cnabArray, <<-2>>) ]

\* The line-tests of the three queries and of the export.
IsSegment(l, segmentoType) == CharAt(l, CNAB_POSITIONS.SEGMENT_INDEX) = segmentoType

IsCompany(l, companyName) ==
  /\ CharAt(l, CNAB_POSITIONS.SEGMENT_INDEX) = <<"Q">>
  /\ includes(slice(l, CNAB_POSITIONS.COMPANY_NAME.START, CNAB_POSITIONS.COMPANY_NAME.END),
              toUpperCase(companyName))

\* What searchSegmentPositions logs.
searchSegmentPositions(cnabBody, segmentoType, from, to, arquivoPath) ==
  LET register == find(cnabBody, [i \in 1..Len(cnabBody) |-> IsSegment(cnabBody[i], segmentoType)])
  IN  IF register # Undefined /\ register # <<>>
      THEN << [op |-> "positions", linha |-> register,
               msg |-> messageLog(register, segmentoType, from, to, arquivoPath)] >>
      ELSE << [op |-> "positions", linha |-> Undefined,
               msg |-> [kind |-> "aviso", text |-> "Nenhuma linha encontrada para o tipo de segmento informado."]] >>

\* What searchBySegmentType logs.
searchBySegmentType(cnabBody, segmentoType) ==
  LET foundSegment == filter(cnabBody, [i \in 1..Len(cnabBody) |-> IsSegment(cnabBody[i], segmentoType)])
  IN  IF Len(foundSegment) # 0
      THEN << [op |-> "segment", linhas |-> foundSegment,
               msg |-> segmentMessageLog(foundSegment, segmentoType,
                                         CNAB_POSITIONS.SEGMENT_INDEX + 1,
                                         CNAB_POSITIONS.SEGMENT_INDEX + 1)] >>
      ELSE << [op |-> "segment", linhas |-> <<>>,
               msg |-> [kind |-> "aviso", text |-> "Nenhum segmento encontrado."]] >>

\* The report of one company found.
CompanyReport(l, arquivoPath) ==
  LET endIndex == Len(trim(slice(l, CNAB_POSITIONS.COMPANY_NAME.START,
                                    CNAB_POSITIONS.COMPANY_NAME.END)))
  IN  [op |-> "name", linha |-> l,
       msg |-> messageLog(l, <<"Q">>,
                          CNAB_POSITIONS.COMPANY_NAME.START + 1,
                          CNAB_POSITIONS.COMPANY_NAME.START + endIndex,
                          arquivoPath)]

\* What searchByCompanyName logs.
searchByCompanyName(cnabBody, companyName, arquivoPath) ==
  LET foundCompanies == filter(cnabBody, [i \in 1..Len(cnabBody) |-> IsCompany(cnabBody[i], companyName)])
  IN  IF Len(foundCompanies) = 0
      THEN << [op |-> "name", linha |-> Undefined,
               msg |-> [kind |-> "aviso", text |-> "Nenhuma empresa encontrada com esse nome."]] >>
      ELSE [i \in 1..Len(foundCompanies) |-> CompanyReport(foundCompanies[i], arquivoPath)]

\* The lines exportToJsonFile hands to exportToJson.
ExportLines(cnabArray) ==
  filter(cnabArray, [i \in 1..Len(cnabArray) |-> IsSegment(cnabArray[i], <<"Q">>)])

\* The array exportToJson serialises.
exportToJson(data) == [i \in 1..Len(data) |-> parseCnabQSegmentLine(data[i])]

\* A check that forgets the segment type of the positional lookup.
CheckArgsWithoutSegmento(argv) ==
  \/ argv.buscar /\ (TruthyStr(argv.nome) \/ TruthyStr(argv.segmento))
  \/ TruthyNum(argv.from) /\ TruthyNum(argv.to)
  \/ TruthyPath(argv.json)

\* The .check of setupCLI.
CheckArgs(argv) ==
  \/ argv.buscar /\ (TruthyStr(argv.nome) \/ TruthyStr(argv.segmento))
  \/ TruthyNum(argv.from) /\ TruthyNum(argv.to) /\ TruthyStr(argv.segmento)
  \/ TruthyPath(argv.json)

---------------------------------------------------------------------------
(* The run: main() and processCommandArguments(), one action per step.     *)

NoFile == <<"ENOENT">>
DefaultPath == "cnabExample.rem"
NoData == [full |-> <<>>, header |-> <<>>, body |-> <<>>, tail |-> <<>>]
NotWritten == <<"not written">>

\* segmento ? segmento.toUpperCase() : undefined
segmentoType == IF TruthyStr(options.segmento) THEN toUpperCase(options.segmento) ELSE Undefined

\* options.arquivo ? path.resolve(options.arquivo) : defaultFilePath
filePath == IF TruthyPath(options.arquivo) THEN options.arquivo ELSE DefaultPath

\* setupCLI(): yargs runs the check; when it fails yargs prints the message
\* and ends the process.
SetupCLI ==
  /\ pc = "setup"
  /\ IF CheckArgs(options)
     THEN /\ pc' = "read"
          /\ events' = events
     ELSE /\ pc' = "exited"
          /\ events' = Append(events, [op |-> "setup", msg |-> [kind |-> "erro",
                          text |-> "Combinacao de argumentos invalida."]])
  /\ UNCHANGED <<options, fsys, writable, cnabData, outFile, line, fields>>

\* A read whose failure is reported and does not leave the try block.
ReadCnabFileGoesOn ==
  /\ pc = "read"
  /\ IF fsys[filePath] # NoFile
     THEN /\ cnabData' = readCnabFile(fsys[filePath])
          /\ events' = Append(events, [op |-> "read", ok |-> TRUE, path |-> filePath])
     ELSE /\ cnabData' = cnabData
          /\ events' = events \o << [op |-> "read", ok |-> FALSE, path |-> filePath],
                                    [op |-> "main", msg |-> [kind |-> "erro",
                                        text |-> "Erro ao processar o arquivo:"]] >>
  /\ pc' = "positions"
  /\ UNCHANGED <<options, fsys, writable, outFile, line, fields>>

\* await readCnabFile(filePath); a rejection goes to main's catch.
ReadCnabFile ==
  /\ pc = "read"
  /\ IF fsys[filePath] # NoFile
     THEN /\ cnabData' = readCnabFile(fsys[filePath])
          /\ events' = Append(events, [op |-> "read", ok |-> TRUE, path |-> filePath])
          /\ pc' = "positions"
     ELSE /\ cnabData' = cnabData
          /\ events' = events \o << [op |-> "read", ok |-> FALSE, path |-> filePath],
                                    [op |-> "main", msg |-> [kind |-> "erro",
                                        text |-> "Erro ao processar o arquivo:"]] >>
          /\ pc' = "end"
  /\ UNCHANGED <<options, fsys, writable, outFile, line, fields>>

\* if (from && to && segmento) searchSegmentPositions(...)
SearchSegmentPositions ==
  /\ pc = "positions"
  /\ events' = IF TruthyNum(options.from) /\ TruthyNum(options.to) /\ TruthyStr(options.segmento)
               THEN events \o searchSegmentPositions(cnabData.body, segmentoType,
                                                     options.from, options.to, options.arquivo)
               ELSE events
  /\ pc' = "segment"
  /\ UNCHANGED <<options, fsys, writable, cnabData, outFile, line, fields>>

\* if (buscar) { if (segmento) searchBySegmentType(...) ... }
SearchBySegmentType ==
  /\ pc = "segment"
  /\ events' = IF options.buscar /\ TruthyStr(options.segmento)
               THEN events \o searchBySegmentType(cnabData.body, segmentoType)
               ELSE events
  /\ pc' = "name"
  /\ UNCHANGED <<options, fsys, writable, cnabData, outFile, line, fields>>

\* if (buscar) { ... if (nome) searchByCompanyName(...) }
SearchByCompanyName ==
  /\ pc = "name"
  /\ events' = IF options.buscar /\ TruthyStr(options.nome)
               THEN events \o searchByCompanyName(cnabData.body, options.nome, options.arquivo)
               ELSE events
  /\ pc' = "export"
  /\ UNCHANGED <<options, fsys, writable, cnabData, outFile, line, fields>>

\* An export of the body instead of the whole document.
ExportToJsonFileOfBody ==
  /\ pc = "export"
  /\ IF TruthyPath(options.json)
     THEN IF writable
          THEN /\ outFile' = exportToJson(ExportLines(cnabData.body))
               /\ events' = events \o << [op |-> "export", ok |-> TRUE, path |-> options.json],
                                         [op |-> "export", msg |-> [kind |-> "info",
                                             text |-> "Arquivo JSON exportado para:"]] >>
          ELSE /\ outFile' = outFile
               /\ events' = events \o << [op |-> "export", ok |-> FALSE, path |-> options.json],
                                         [op |-> "export", msg |-> [kind |-> "erro",
                                             text |-> "Erro ao exportar para JSON:"]] >>
     ELSE /\ outFile' = outFile
          /\ events' = events
  /\ pc' = "end"
  /\ UNCHANGED <<options, fsys, writable, cnabData, line, fields>>

\* if (json) await exportToJsonFile(cnabData.full, json): the write's failure
\* is caught inside exportToJsonFile.
ExportToJsonFile ==
  /\ pc = "export"
  /\ IF TruthyPath(options.json)
     THEN IF writable
          THEN /\ outFile' = exportToJson(ExportLines(cnabData.full))
               /\ events' = events \o << [op |-> "export", ok |-> TRUE, path |-> options.json],
                                         [op |-> "export", msg |-> [kind |-> "info",
                                             text |-> "Arquivo JSON exportado para:"]] >>
          ELSE /\ outFile' = outFile
               /\ events' = events \o << [op |-> "export", ok |-> FALSE, path |-> options.json],
                                         [op |-> "export", msg |-> [kind |-> "erro",
                                             text |-> "Erro ao exportar para JSON:"]] >>
     ELSE /\ outFile' = outFile
          /\ events' = events
  /\ pc' = "end"
  /\ UNCHANGED <<options, fsys, writable, cnabData, line, fields>>

\* console.timeEnd('Tempo total'): main returns.
Done ==
  /\ pc = "end"
  /\ pc' = "done"
  /\ UNCHANGED <<options, fsys, writable, cnabData, events, outFile, line, fields>>

Next ==
  \/ SetupCLI
  \/ ReadCnabFile
  \/ SearchSegmentPositions
  \/ SearchBySegmentType
  \/ SearchByCompanyName
  \/ ExportToJsonFile
  \/ Done

---------------------------------------------------------------------------
(* The inputs of a run: the command line and the files on disk.            *)

Rep(c, n) == [i \in 1..n |-> c]
PadEnd(s, n) == s \o Rep(" ", n - Len(s))
Take(s, n) == SubSeq(s, 1, Min2(n, Len(s)))
Width(range) == range.END - range.START

\* The strings over an alphabet, up to a length.
Strings(alphabet, n) == UNION {[1..k -> alphabet] : k \in 0..n}

\* A line in the layout of the offset table: the segment type at index 13,
\* the six fields at their offsets, each padded to its width.
MkLine(seg, nome, resto, cep, uf) ==
  Rep("0", CNAB_POSITIONS.SEGMENT_INDEX) \o <<seg>>
    \o Rep("0", CNAB_POSITIONS.COMPANY_NAME.START - CNAB_POSITIONS.SEGMENT_INDEX - 1)
    \o PadEnd(nome,  Width(CNAB_POSITIONS.COMPANY_NAME))
    \o PadEnd(resto, Width(CNAB_POSITIONS.ADDRESS))
    \o PadEnd(resto, Width(CNAB_POSITIONS.DISTRICT))
    \o PadEnd(cep,   Width(CNAB_POSITIONS.ZIP))
    \o PadEnd(resto, Width(CNAB_POSITIONS.CITY))
    \o PadEnd(uf,    Width(CNAB_POSITIONS.ESTADO))
    \o <<"0", "0", "0", "0", "0", "0">>

SampleLine(seg, nome) == MkLine(seg, nome, <<"R", "U", "A", " ", "B">>, <<"1", "2", "3">>, <<"S", "P">>)

\* The text of a file: its lines with a line feed between them.
RECURSIVE Join(_)
Join(ls) ==
  IF Len(ls) = 0 THEN <<>>
  ELSE IF Len(ls) = 1 THEN ls[1]
  ELSE ls[1] \o <<"\n">> \o Join(Tail(ls))

\* The header and trailer lines of the sample files.
HeaderLines == << Take(SampleLine("0", <<"B", "A", "N", "C", "O">>), 40),
                  Take(SampleLine("1", <<"L", "O", "T", "E">>), 40) >>
TailLines   == << Take(SampleLine("5", <<>>), 40), Take(SampleLine("9", <<>>), 40) >>

FileOf(body) == Join(HeaderLines \o body \o TailLines)

UserPath == "a.rem"

Option(from, to, segmento, buscar, nome, json, arquivo) ==
  [from |-> from, to |-> to, segmento |-> segmento, buscar |-> buscar,
   nome |-> nome, json |-> json, arquivo |-> arquivo]

\* The state main() starts in.
InitRun(Opts, DefaultFiles, UserFiles, Writable) ==
  /\ pc = "setup"
  /\ options \in Opts
  /\ fsys \in {[p \in {DefaultPath, UserPath} |-> IF p = DefaultPath THEN d ELSE u] :
                 d \in DefaultFiles, u \in UserFiles}
  /\ writable \in Writable
  /\ cnabData = NoData
  /\ events = <<>>
  /\ outFile = NotWritten
  /\ line = <<>>
  /\ fields = <<>>

---------------------------------------------------------------------------
(* Spec: every combination of the seven options, on a few files.           *)

AllOptions ==
  { Option(f, t, s, b, n, j, a) :
      f \in {0, 2}, t \in {0, 4}, s \in {<<>>, <<"q">>}, b \in BOOLEAN,
      n \in {<<>>, <<"a">>}, j \in {"", "out.json"}, a \in {"", UserPath} }

SampleBody == << Take(SampleLine("P", <<"A">>), 80),
                 Take(SampleLine("Q", <<"A", "B">>), 80),
                 Take(SampleLine("Q", <<"B", "A">>), 80) >>

Init == InitRun(AllOptions, {FileOf(SampleBody), FileOf(<<>>)},
                {NoFile, FileOf(<<SampleBody[2]>>)}, BOOLEAN)

Spec == Init /\ [][Next]_vars

\* The four modes of a command line.
ActivePositional ==
  TruthyNum(options.from) /\ TruthyNum(options.to) /\ TruthyStr(options.segmento)
ActiveSegment == options.buscar /\ TruthyStr(options.segmento)
ActiveName    == options.buscar /\ TruthyStr(options.nome)
ActiveExport  == TruthyPath(options.json)
ActiveCount ==
  Cardinality({m \in {"positions", "segment", "name", "export"} :
     \/ m = "positions" /\ ActivePositional
     \/ m = "segment"   /\ ActiveSegment
     \/ m = "name"      /\ ActiveName
     \/ m = "export"    /\ ActiveExport})

\* The events of an operation.
EventsOf(op) == {i \in 1..Len(events) : events[i].op = op}
IsIO(e) == "ok" \in DOMAIN e
Reads  == {i \in EventsOf("read") : IsIO(events[i])}
Writes == {i \in EventsOf("export") : IsIO(events[i])}

\* No read of the input, no report, no write of the output.
NoFileIO ==
  /\ \A i \in 1..Len(events) : events[i].op = "setup"
  /\ cnabData = NoData
  /\ outFile = NotWritten

---------------------------------------------------------------------------
(* C7: the validation of the command line.                                 *)

---------------------------------------------------------------------------
(* C10: the order of the steps of a run.                                   *)

\* The place of an operation in processCommandArguments.
StepOf(op) ==
  CASE op = "setup"     -> 0
    [] op = "read"      -> 1
    [] op = "main"      -> 1
    [] op = "positions" -> 2
    [] op = "segment"   -> 3
    [] op = "name"      -> 4
    [] op = "export"    -> 5

ReadFailed == \E i \in Reads : ~events[i].ok
ReadOk     == \E i \in Reads : events[i].ok

\* C10: at most one read, the first thing an accepted run does; then the
\* reports of the active queries in the order positions, segment, name; then at
\* most one write, only after a successful read.  When the read fails the run
\* reports the error, reports no query, writes nothing and goes to its end.
C10_StepsInOrder ==
  /\ Cardinality(Reads) <= 1
  /\ Cardinality(Writes) <= 1
  /\ \A i, j \in 1..Len(events) : i < j => StepOf(events[i].op) <= StepOf(events[j].op)
  /\ \A i \in 1..Len(events) :
        events[i].op \in {"positions", "segment", "name", "export"} =>
           /\ IsIO(events[1]) /\ events[1].op = "read" /\ events[1].ok
  /\ (outFile # NotWritten) => (ReadOk /\ \E i \in Writes : events[i].ok)
  /\ pc \in {"positions", "segment", "name", "export"} => ReadOk
  /\ pc \in {"end", "done"} => Cardinality(Reads) = 1
  /\ ReadFailed =>
        /\ Len(events) = 2
        /\ events[2].op = "main" /\ events[2].msg.kind = "erro"
        /\ outFile = NotWritten
        /\ pc \in {"end", "done"}
  /\ (pc \in {"end", "done"} /\ ReadOk) =>
        /\ (EventsOf("positions") # {}) <=> ActivePositional
        /\ (EventsOf("segment") # {}) <=> ActiveSegment
        /\ (EventsOf("name") # {}) <=> ActiveName
        /\ (Writes # {}) <=> ActiveExport

\* C10's case: a finished run in which the four modes were active and the
\* output was written.
C10_Witness ==
  /\ pc = "done"
  /\ ActivePositional /\ ActiveSegment /\ ActiveName /\ ActiveExport
  /\ EventsOf("positions") # {} /\ EventsOf("segment") # {} /\ EventsOf("name") # {}
  /\ outFile # NotWritten

---------------------------------------------------------------------------
(* C6: the partition of the loaded file.  SpecLoad: every file of up to    *)
(* MaxLines lines, each line one of LoadLines.                             *)

MaxLines == 6

LoadLines == { <<>>, <<"A">>, <<"B", "\r">> }

LoadFiles == {Join(ls) : ls \in UNION {[1..k -> LoadLines] : k \in 1..MaxLines}}

\* Every mode on the default file, an empty command line, and a file that
\* does not exist.
LoadOptions ==
  { Option(1, 1, <<"q">>, TRUE, <<"a">>, "out.json", ""),
    Option(0, 0, <<>>, FALSE, <<>>, "", ""),
    Option(0, 0, <<"q">>, TRUE, <<>>, "", UserPath) }

InitLoad == InitRun(LoadOptions, LoadFiles, {NoFile}, {TRUE})

SpecLoad == InitLoad /\ [][Next]_vars

\* part is the lines [lo, hi) of full, 0-based, as far as full has them.
IsLinesOf(part, full, lo, hi) ==
  LET a == Max2(lo, 0)
      b == Min2(hi, Len(full))
  IN  /\ Len(part) = Max2(0, b - a)
      /\ \A i \in 1..Len(part) : part[i] = full[a + i]

\* The document is the file read: its lines, a line feed between them.
IsLoaded == cnabData # NoData
LoadedFrom(text) ==
  /\ Join(cnabData.full) = text
  /\ \A i \in 1..Len(cnabData.full) :
        \A j \in 1..Len(cnabData.full[i]) : cnabData.full[i][j] # "\n"

HeaderBodyTail ==
  LET n == Len(cnabData.full)
  IN  /\ LoadedFrom(fsys[filePath])
      /\ IsLinesOf(cnabData.header, cnabData.full, 0, 2)
      /\ IsLinesOf(cnabData.body,   cnabData.full, 2, n - 2)
      /\ IsLinesOf(cnabData.tail,   cnabData.full, n - 2, n)

IsPartition == cnabData.header \o cnabData.body \o cnabData.tail = cnabData.full

\* C6, as stated: whatever the number of lines of the file, header is lines
\* [0,2), body is lines [2,len-2), tail is the last 2 lines, and header, body
\* and tail are a partition of full.
C6_PartitionOfAnyFile == IsLoaded => (HeaderBodyTail /\ IsPartition)

\* C6, amended: whatever the number of lines, header is lines [0,2), body is
\* lines [2,len-2) and tail is the last 2 lines (each as far as the file has
\* them); the three are a partition of full when the file has at least 4
\* lines.
C6_PartitionFromFourLines ==
  IsLoaded => (HeaderBodyTail /\ (Len(cnabData.full) >= 4 => IsPartition))

\* C6's case: a file of five lines or more is loaded, with a body whose
\* lines differ from the header's and the tail's.
C6_Witness ==
  /\ IsLoaded
  /\ Len(cnabData.full) >= 5
  /\ cnabData.header[2] # cnabData.body[1]
  /\ cnabData.body[Len(cnabData.body)] # cnabData.tail[1]

---------------------------------------------------------------------------
(* C5: the field extraction.  SpecExtract calls parseCnabQSegmentLine on   *)
(* lines of the layout cut at every kind of length.                        *)

\* const fields = parseCnabQSegmentLine(line)
ParseCnabQSegmentLine ==
  /\ pc = "call"
  /\ fields' = parseCnabQSegmentLine(line)
  /\ pc' = "returned"
  /\ UNCHANGED <<options, fsys, writable, cnabData, events, outFile, line>>

MaxField == 2

FieldTexts == Strings({"A", " "}, MaxField)

\* Lengths before, inside and after each field.
ExtractLengths == {0, 20, 33, 34, 36, 73, 74, 120, 130, 140, 152, 154, 160}

ExtractLines ==
  { Take(MkLine("Q", nome, resto, cep, uf), n) \o cr :
      nome \in FieldTexts, resto \in FieldTexts,
      cep \in { <<"0", "1", "3", "1", "0", "2", "0", "0">>, <<" ", "1", " ">> },
      uf \in { <<"S", "P", " ">>, <<" ", "S">> },
      n \in ExtractLengths, cr \in { <<>>, <<"\r">> } }

InitExtract ==
  /\ pc = "call"
  /\ line \in ExtractLines
  /\ fields = <<>>
  /\ options = Option(0, 0, <<>>, FALSE, <<>>, "", "")
  /\ fsys = [p \in {DefaultPath, UserPath} |-> NoFile]
  /\ writable = TRUE
  /\ cnabData = NoData
  /\ events = <<>>
  /\ outFile = NotWritten

SpecExtract == InitExtract /\ [][ParseCnabQSegmentLine]_vars

\* The table of the claim: name, range, and whether the value is trimmed.
FieldTable ==
  << [name |-> "nome",     from |-> 33,  to |-> 73,  trimmed |-> TRUE],
     [name |-> "endereco", from |-> 73,  to |-> 113, trimmed |-> TRUE],
     [name |-> "bairro",   from |-> 113, to |-> 128, trimmed |-> TRUE],
     [name |-> "cep",      from |-> 128, to |-> 136, trimmed |-> FALSE],
     [name |-> "cidade",   from |-> 136, to |-> 151, trimmed |-> TRUE],
     [name |-> "estado",   from |-> 151, to |-> 154, trimmed |-> FALSE] >>

\* l[from, to), as far as l has it.
WindowOf(l, from, to) ==
  [i \in 1..Max2(0, Min2(to, Len(l)) - from) |-> l[from + i]]

\* v is w without the white space around it.
IsTrimOf(v, w) ==
  /\ v = <<>> \/ (v[1] \notin WhiteSpace /\ v[Len(v)] \notin WhiteSpace)
  /\ \E k \in 0..(Len(w) - Len(v)) :
        /\ \A i \in 1..Len(v) : v[i] = w[k + i]
        /\ \A i \in 1..k : w[i] \in WhiteSpace
        /\ \A i \in (k + Len(v) + 1)..Len(w) : w[i] \in WhiteSpace

\* C5: the extraction returns the six fields of the table in its order, each
\* with the table's range; a value is line[from, to) cut to the line's length,
\* trimmed for nome, endereco, bairro and cidade and raw for cep and estado.
C5_SixFieldsOfTheTable ==
  (pc = "returned") =>
     /\ Len(fields) = 6
     /\ \A k \in 1..6 :
          /\ fields[k].name = FieldTable[k].name
          /\ fields[k].from = FieldTable[k].from
          /\ fields[k].to = FieldTable[k].to
          /\ IF FieldTable[k].trimmed
             THEN IsTrimOf(fields[k].value, WindowOf(line, FieldTable[k].from, FieldTable[k].to))
             ELSE fields[k].value = WindowOf(line, FieldTable[k].from, FieldTable[k].to)

\* C5's case: a line that ends inside the postal code, whose name was trimmed
\* and whose postal code kept its spaces.
C5_Witness ==
  /\ pc = "returned"
  /\ Len(line) > 128 /\ Len(line) < 136
  /\ fields[1].value # <<>> /\ line[34] = " "
  /\ fields[4].value # <<>> /\ fields[4].value[1] = " "
  /\ fields[6].value = <<>>

---------------------------------------------------------------------------
(* C4: the export.  SpecExport: every document of up to MaxDoc lines, each *)
(* line one of ExportPool, and the document of the scenario.               *)

MaxDoc == 5

QLineA   == Take(SampleLine("Q", <<"A", "C", "M", "E">>), 80)
QLineB   == Take(SampleLine("Q", <<" ", "B">>), 36)
NotQLine == Take(SampleLine("P", <<"A">>), 36)
ShortLine == Take(SampleLine("Q", <<"A">>), 10)

ExportPool == {QLineA, QLineB, NotQLine, ShortLine}

\* 5 lines of segment Q, two of them in the header and the trailer, and 10
\* other lines.
ScenarioDocument ==
  << QLineA, NotQLine, NotQLine, QLineB, ShortLine, NotQLine, QLineA, NotQLine,
     QLineB, ShortLine, NotQLine, NotQLine, ShortLine, NotQLine, QLineB >>

ExportFiles ==
  {Join(ls) : ls \in UNION {[1..k -> ExportPool] : k \in 1..MaxDoc}}
    \cup {Join(ScenarioDocument)}

ExportOptions ==
  { Option(0, 0, <<>>, FALSE, <<>>, "out.json", ""),
    Option(0, 0, <<"q">>, TRUE, <<"b">>, "out.json", ""),
    Option(0, 0, <<>>, TRUE, <<>>, "", ""),
    Option(0, 0, <<>>, FALSE, <<>>, "out.json", UserPath) }

InitExport == InitRun(ExportOptions, ExportFiles, {NoFile}, BOOLEAN)

SpecExport == InitExport /\ [][Next]_vars

\* The positions, in the whole document, of the lines of segment Q.
QPositions ==
  {i \in 1..Len(cnabData.full) : Len(cnabData.full[i]) > 13 /\ cnabData.full[i][14] = "Q"}

\* The k-th of them.
QPosition(k) == CHOOSE i \in QPositions : Cardinality({j \in QPositions : j < i}) = k - 1

\* C4: the file written holds one entry per line of the full document whose
\* character at index 13 is Q, header and trailer included, in the document's
\* order; an entry is the six fields nome, endereco, bairro, cep, cidade,
\* estado of its line, each with its value and range.  The export of a run
\* that read its input and could write is made.
C4_OneEntryPerQLine ==
  /\ (outFile # NotWritten) =>
        /\ LoadedFrom(fsys[filePath])
        /\ Len(outFile) = Cardinality(QPositions)
        /\ \A k \in 1..Len(outFile) :
              /\ Len(outFile[k]) = 6
              /\ \A f \in 1..6 :
                    /\ outFile[k][f].name = FieldTable[f].name
                    /\ outFile[k][f].from = FieldTable[f].from
                    /\ outFile[k][f].to = FieldTable[f].to
              /\ outFile[k] = parseCnabQSegmentLine(cnabData.full[QPosition(k)])
  /\ (pc \in {"end", "done"} /\ ActiveExport /\ ReadOk /\ writable) => outFile # NotWritten

\* C4's case: the document of 5 Q lines and 10 other lines, exported in 5
\* entries of which the first comes from the header and the last from the
\* trailer.
C4_Witness ==
  /\ outFile # NotWritten
  /\ Len(cnabData.full) = 15
  /\ Cardinality(QPositions) = 5
  /\ 1 \in QPositions /\ 15 \in QPositions
  /\ Len(outFile) = 5
  /\ outFile[1][1].value = <<"A", "C", "M", "E">>
  /\ outFile[5][1].value = <<"B">>

---------------------------------------------------------------------------
(* C2, C8, C9: the positional lookup and the highlighted lines.            *)
(* SpecLookup: bodies of up to MaxBody lines whose characters differ from  *)
(* one position to the next, and from / to before, inside and past a line. *)

MaxBody == 3
MaxPos == 3

Digit(i) == <<"0", "1", "2", "3", "4", "5", "6", "7", "8", "9">>[(i % 10) + 1]

\* A line of n digits with the segment type at index 13.
Ruler(seg, n, shift) == [i \in 1..n |-> IF i = 14 THEN seg ELSE Digit(i + shift)]

LookupPool ==
  { Ruler("P", 40, 0), Ruler("P", 40, 3), Ruler("Q", 40, 5), Ruler("p", 40, 7),
    Ruler("P", 10, 0) }

Bodies(pool, n) == UNION {[1..k -> pool] : k \in 0..n}

FromPositions == {-1} \cup (1..MaxPos) \cup {14, 21, 41, 45}
ToPositions   == (1..MaxPos) \cup {14, 34, 41, 45}

\* A rejected command line, and a file that does not exist.
OtherOptions ==
  { Option(21, 34, <<>>, FALSE, <<>>, "", ""),
    Option(21, 34, <<"p">>, FALSE, <<>>, "out.json", UserPath) }

\* Every range, on the bodies of one line at most.
RangeOptions ==
  { Option(f, t, s, FALSE, <<>>, "", "") :
      f \in FromPositions, t \in ToPositions, s \in { <<"p">>, <<"Q">>, <<"r">> } }

\* The lookup of [21, 34] and the listing, on every body.
TypeOptions ==
  { Option(f, 34, s, b, <<>>, "", "") :
      f \in {0, 21}, s \in { <<"p">>, <<"Q">>, <<"r">> }, b \in BOOLEAN } \cup OtherOptions

InitLookup ==
  \/ InitRun(RangeOptions, {FileOf(b) : b \in Bodies(LookupPool, 1)}, {NoFile}, {FALSE})
  \/ InitRun(TypeOptions, {FileOf(b) : b \in Bodies(LookupPool, MaxBody)}, {NoFile}, {FALSE})

SpecLookup == InitLookup /\ [][Next]_vars

\* The positions, in the body, of the lines of the requested segment type.
TypePositions ==
  {i \in 1..Len(cnabData.body) :
     Len(cnabData.body[i]) > 13 /\ <<cnabData.body[i][14]>> = segmentoType}

Least(S) == CHOOSE i \in S : \A j \in S : i <= j

AfterStep(step) ==
  CASE step = "positions" -> pc \in {"segment", "name", "export", "end", "done"} /\ ReadOk
    [] step = "segment"   -> pc \in {"name", "export", "end", "done"} /\ ReadOk
    [] step = "name"      -> pc \in {"export", "end", "done"} /\ ReadOk

NoError == \A i \in 1..Len(events) : IsIO(events[i]) \/ events[i].msg.kind # "erro"

\* C2: when a body line has the requested segment type at index 13, the lookup
\* makes exactly one report, of the earliest such line; when none has, it
\* makes the 'no line found' message, and raises nothing.
C2_FirstLineOfTheType ==
  (AfterStep("positions") /\ ActivePositional) =>
     /\ Cardinality(EventsOf("positions")) = 1
     /\ \A i \in EventsOf("positions") :
          IF TypePositions # {}
          THEN /\ events[i].msg.kind = "linha"
               /\ events[i].linha = cnabData.body[Least(TypePositions)]
               /\ events[i].msg.segmentoType = segmentoType
               /\ events[i].msg.from = options.from /\ events[i].msg.to = options.to
          ELSE /\ events[i].msg.kind = "aviso"
               /\ events[i].msg.text = "Nenhuma linha encontrada para o tipo de segmento informado."
     /\ NoError

\* C2's case: two different lines of the type in the body, after a line of
\* another type, and the report made.
C2_Witness ==
  /\ pc = "done" /\ ActivePositional
  /\ Cardinality(TypePositions) = 2 /\ 1 \notin TypePositions
  /\ cnabData.body[2] # cnabData.body[3]
  /\ \E i \in EventsOf("positions") : events[i].msg.kind = "linha"

\* C8, as stated: the lookup never raises, and whatever from and to are the
\* substring it extracts holds the characters of the line at the positions of
\* [from-1, to) that the line has, and no other: it is empty when from > to.
C8_WithinRequestedRange ==
  /\ \A i \in EventsOf("positions") : events[i].msg.kind \in {"linha", "aviso"}
  /\ \A i \in EventsOf("positions") :
        events[i].msg.kind = "linha" =>
           LET lo == Max2(events[i].msg.from - 1, 0)
               hi == Min2(events[i].msg.to, Len(events[i].linha))
           IN  events[i].msg.isolado = [k \in 1..Max2(0, hi - lo) |-> events[i].linha[lo + k]]

\* The three pieces of a highlighted line are the line.
IsHighlightOf(h, l, from, to) ==
  /\ h.prefix = WindowOf(l, 0, from - 1)
  /\ h.destaque = WindowOf(l, from - 1, to)
  /\ h.suffix = WindowOf(l, to, Len(l))
  /\ h.prefix \o h.destaque \o h.suffix = l

\* C9: in a report with 1 <= from <= to <= len(line) the extracted substring
\* is line[from-1, to) and the line shown is prefix [0, from-1), highlighted
\* [from-1, to), suffix [to, end), the original line; in the segment listing
\* the highlighted span of each line is its character at index 13.
C9_HighlightIsTheLine ==
  \A i \in 1..Len(events) :
     /\ (~IsIO(events[i]) /\ events[i].msg.kind = "linha"
           /\ 1 <= events[i].msg.from /\ events[i].msg.from <= events[i].msg.to
           /\ events[i].msg.to <= Len(events[i].linha)) =>
          /\ events[i].msg.isolado = WindowOf(events[i].linha, events[i].msg.from - 1, events[i].msg.to)
          /\ IsHighlightOf(events[i].msg.dentro, events[i].linha, events[i].msg.from, events[i].msg.to)
     /\ (~IsIO(events[i]) /\ events[i].msg.kind = "segmento") =>
          /\ Len(events[i].msg.linhas) = Len(events[i].linhas)
          /\ \A k \in 1..Len(events[i].linhas) :
                /\ events[i].msg.linhas[k].destaque = <<events[i].linhas[k][14]>>
                /\ Len(events[i].msg.linhas[k].prefix) = 13
                /\ IsHighlightOf(events[i].msg.linhas[k], events[i].linhas[k], 14, 14)

\* C9's case: a lookup of [21, 34] in a line of 40 characters, and a listing
\* of two lines, both reported.
C9_Witness ==
  /\ pc = "done"
  /\ \E i \in EventsOf("positions") :
        /\ events[i].msg.kind = "linha"
        /\ events[i].msg.from = 21 /\ events[i].msg.to = 34
        /\ Len(events[i].msg.isolado) = 14
  /\ \E i \in EventsOf("segment") :
        events[i].msg.kind = "segmento" /\ Len(events[i].msg.linhas) = 2

---------------------------------------------------------------------------
(* C1, C3: the segment listing and the company-name search.  SpecSearch:   *)
(* every company name of up to MaxName characters in a body of one line,   *)
(* and the bodies of up to MaxBody lines of SearchPool.                    *)

MaxName == 3

NameLine(seg, nome, n) == Take(SampleLine(seg, nome), n)

\* Two companies, a line of another segment with a company's name, a name
\* stored in lower case, and a line that ends inside the name.
SearchPool ==
  { NameLine("Q", <<"A", "B">>, 80), NameLine("Q", <<"B", "A", "B">>, 80),
    NameLine("P", <<"A", "B">>, 80), NameLine("Q", <<"a", "b">>, 80),
    NameLine("Q", <<"A", "B">>, 34) }

\* The names of up to MaxName characters, and a name that fills the field.
CompanyNames ==
  Strings({"A", "B", " "}, MaxName) \cup {Rep("A", Width(CNAB_POSITIONS.COMPANY_NAME))}

Patterns == { <<"a">>, <<"A", "B">>, <<"b">>, <<" ">>, <<"A", "b">> }

NameOptions == { Option(0, 0, <<>>, TRUE, n, "", "") : n \in Patterns }

SearchOptions ==
  { Option(0, 0, s, TRUE, n, "", "") :
      s \in { <<>>, <<"q">>, <<"P">>, <<"r">> }, n \in Patterns \cup { <<>> } } \cup OtherOptions

InitSearch ==
  \/ InitRun(NameOptions, {FileOf(<<NameLine("Q", n, 80)>>) : n \in CompanyNames}, {NoFile}, {FALSE})
  \/ InitRun(SearchOptions, {FileOf(b) : b \in Bodies(SearchPool, MaxBody)}, {NoFile}, {FALSE})

SpecSearch == InitSearch /\ [][Next]_vars

\* s holds p: at some offset the characters of p follow one another.
Holds(s, p) ==
  \E k \in 0..(Len(s) - Len(p)) : \A j \in 1..Len(p) : s[k + j] = p[j]

\* The company-name field of a line.
NameField(l) == WindowOf(l, 33, 73)

\* The positions, in the body, of the Q lines whose company-name field holds
\* the pattern in upper case.
NamePositions ==
  {i \in 1..Len(cnabData.body) :
     /\ Len(cnabData.body[i]) > 13 /\ cnabData.body[i][14] = "Q"
     /\ Holds(NameField(cnabData.body[i]), toUpperCase(options.nome))}

\* The k-th element of a set of positions.
Nth(S, k) == CHOOSE i \in S : Cardinality({j \in S : j < i}) = k - 1

\* C3: the listing reports the body lines of the requested type, each once, in
\* the body's order, and the name search the Q lines whose company-name field
\* holds the upper-cased pattern, each once, in the body's order; when no line
\* matches, each makes its nothing-found message, and no error.
C3_EveryMatchInBodyOrder ==
  /\ (AfterStep("segment") /\ ActiveSegment) =>
        /\ Cardinality(EventsOf("segment")) = 1
        /\ \A i \in EventsOf("segment") :
             IF TypePositions # {}
             THEN /\ events[i].msg.kind = "segmento"
                  /\ Len(events[i].msg.linhas) = Cardinality(TypePositions)
                  /\ \A k \in 1..Len(events[i].msg.linhas) :
                        LET h == events[i].msg.linhas[k]
                        IN  /\ h.prefix \o h.destaque \o h.suffix = cnabData.body[Nth(TypePositions, k)]
                            /\ events[i].linhas[k] = cnabData.body[Nth(TypePositions, k)]
             ELSE /\ events[i].msg.kind = "aviso"
                  /\ events[i].msg.text = "Nenhum segmento encontrado."
  /\ (AfterStep("name") /\ ActiveName) =>
        IF NamePositions # {}
        THEN /\ Cardinality(EventsOf("name")) = Cardinality(NamePositions)
             /\ \A k \in 1..Cardinality(NamePositions) :
                   LET e == events[Nth(EventsOf("name"), k)]
                   IN  /\ e.msg.kind = "linha"
                       /\ e.msg.segmentoType = <<"Q">>
                       /\ e.linha = cnabData.body[Nth(NamePositions, k)]
        ELSE /\ Cardinality(EventsOf("name")) = 1
             /\ \A i \in EventsOf("name") :
                   /\ events[i].msg.kind = "aviso"
                   /\ events[i].msg.text = "Nenhuma empresa encontrada com esse nome."
  /\ AfterStep("segment") => NoError

\* C3's case: a pattern in lower case found in two different companies of a
\* body that has a third line of another segment with the same name, and a
\* listing of Q that reports those two lines.
C3_Witness ==
  /\ pc = "done" /\ ActiveName /\ ActiveSegment
  /\ options.nome = <<"A", "b">>
  /\ Len(cnabData.body) = 3
  /\ NamePositions = {1, 3}
  /\ cnabData.body[1] # cnabData.body[3]
  /\ Holds(NameField(cnabData.body[2]), <<"A", "B">>)
  /\ Cardinality(EventsOf("name")) = 2
  /\ TypePositions = {1, 3}

\* C1, as stated: a report of the name search highlights the span that starts
\* at offset 33, is as long as the trimmed company-name field and reads the
\* trimmed company name, whatever the field holds.
C1_FullTrimmedName ==
  \A i \in EventsOf("name") :
     events[i].msg.kind = "linha" =>
        /\ events[i].msg.from - 1 = 33
        /\ IsTrimOf(events[i].msg.isolado, NameField(events[i].linha))
        /\ events[i].msg.to - (events[i].msg.from - 1) = Len(events[i].msg.isolado)
        /\ events[i].msg.dentro.destaque = events[i].msg.isolado

====
